---------------------------- MODULE Spec2Model ----------------------------
(***************************************************************************)
(* GitHub-Repo-Analyzer-CLI: the identifier parser (src/src/utils.ts), the *)
(* API client and analysis aggregator (src/src/api.ts) and the command     *)
(* surface (index.ts as listed in src/README.md), as a state machine.      *)
(*                                                                         *)
(* Strings are sequences of one-character strings.  Timestamps are         *)
(* integers (ISO-8601 strings ordered as new Date(..).getTime() orders     *)
(* them); 0 stands for null/absent where a date is expected.               *)
(***************************************************************************)
EXTENDS Integers, Sequences, FiniteSets, TLC

(***************************************************************************)
(* Strings                                                                 *)
(***************************************************************************)

\* The characters String.prototype.trim and the regex class \s remove.
Whitespace == {" "}

HttpsPrefix == <<"h","t","t","p","s",":","/","/","g","i","t","h","u","b",".","c","o","m","/">>
HttpPrefix == <<"h","t","t","p",":","/","/","g","i","t","h","u","b",".","c","o","m","/">>
SshPrefix == <<"g","i","t","@","g","i","t","h","u","b",".","c","o","m",":">>
DotGit == <<".","g","i","t">>

StartsWith(s, p) == Len(s) >= Len(p) /\ SubSeq(s, 1, Len(p)) = p

DropPrefix(s, p) == SubSeq(s, Len(p) + 1, Len(s))

NoSlash(s) == \A i \in 1..Len(s) : s[i] # "/"

NoSlashNoSpace(s) == \A i \in 1..Len(s) : s[i] # "/" /\ s[i] \notin Whitespace

RECURSIVE TrimStart(_)
TrimStart(s) ==
    IF s # <<>> /\ Head(s) \in Whitespace THEN TrimStart(Tail(s)) ELSE s

RECURSIVE TrimEnd(_)
TrimEnd(s) ==
    IF s # <<>> /\ s[Len(s)] \in Whitespace
    THEN TrimEnd(SubSeq(s, 1, Len(s) - 1)) ELSE s

\* String.prototype.trim
Trim(s) == TrimEnd(TrimStart(s))

\* s.replace(/\/+$/, '')
RECURSIVE StripTrailingSlashes(_)
StripTrailingSlashes(s) ==
    IF s # <<>> /\ s[Len(s)] = "/"
    THEN StripTrailingSlashes(SubSeq(s, 1, Len(s) - 1)) ELSE s

(***************************************************************************)
(* parseGitHubUrl (src/src/utils.ts:9-40)                                  *)
(***************************************************************************)

\* The ways the tail of the first two patterns,
\*     ([^\/]+)\/([^\/]+)(?:\.git)?(?:\/.*)?$     (withPath)
\*     ([^\/]+)\/([^\/]+)(?:\.git)?$              (no path)
\* matches rest: owner = rest[1..o], "/", repo = rest[o+2..r], then ".git"
\* (git = 1) or nothing (git = 0), then the end, or "/" and anything.
Splits(rest, withPath) ==
    { m \in [o : 1..Len(rest), r : 1..Len(rest), git : {0, 1}] :
        /\ m.o + 1 <= Len(rest)
        /\ rest[m.o + 1] = "/"
        /\ NoSlash(SubSeq(rest, 1, m.o))
        /\ m.r >= m.o + 2
        /\ NoSlash(SubSeq(rest, m.o + 2, m.r))
        /\ m.git = 1 => /\ m.r + 4 <= Len(rest)
                        /\ SubSeq(rest, m.r + 1, m.r + 4) = DotGit
        /\ LET p == m.r + 4 * m.git
           IN  \/ p = Len(rest)
               \/ withPath /\ p < Len(rest) /\ rest[p + 1] = "/" }

\* The order in which a backtracking matcher tries them: both captures are
\* greedy (longest first), and an optional group is tried present first.
TriedBefore(m1, m2) ==
    \/ m1.o > m2.o
    \/ m1.o = m2.o /\ m1.r > m2.r
    \/ m1.o = m2.o /\ m1.r = m2.r /\ m1.git >= m2.git

FirstSplit(rest, withPath) ==
    CHOOSE m \in Splits(rest, withPath) :
        \A m2 \in Splits(rest, withPath) : TriedBefore(m, m2)

Captures(rest, m) ==
    [owner |-> SubSeq(rest, 1, m.o), repo |-> SubSeq(rest, m.o + 2, m.r)]

NoMatch == [matched |-> FALSE, owner |-> <<>>, repo |-> <<>>]

Matched(c) == [matched |-> TRUE, owner |-> c.owner, repo |-> c.repo]

MatchTail(rest, withPath) ==
    IF Splits(rest, withPath) = {} THEN NoMatch
    ELSE Matched(Captures(rest, FirstSplit(rest, withPath)))

\* /^https?:\/\/github\.com\/([^\/]+)\/([^\/]+)(?:\.git)?(?:\/.*)?$/
MatchHttps(s) ==
    IF StartsWith(s, HttpsPrefix) THEN MatchTail(DropPrefix(s, HttpsPrefix), TRUE)
    ELSE IF StartsWith(s, HttpPrefix) THEN MatchTail(DropPrefix(s, HttpPrefix), TRUE)
    ELSE NoMatch

\* /^git@github\.com:([^\/]+)\/([^\/]+)(?:\.git)?$/
MatchSsh(s) ==
    IF StartsWith(s, SshPrefix) THEN MatchTail(DropPrefix(s, SshPrefix), FALSE)
    ELSE NoMatch

\* A variant: the short form with the classes of the other two, [^\/]+
MatchShortAnyText(s) ==
    IF \E i \in 2..(Len(s) - 1) :
          /\ s[i] = "/"
          /\ NoSlash(SubSeq(s, 1, i - 1))
          /\ NoSlash(SubSeq(s, i + 1, Len(s)))
    THEN LET i == CHOOSE k \in 2..(Len(s) - 1) : s[k] = "/"
         IN  Matched([owner |-> SubSeq(s, 1, i - 1), repo |-> SubSeq(s, i + 1, Len(s))])
    ELSE NoMatch

\* /^([^\/\s]+)\/([^\/\s]+)$/
MatchShort(s) ==
    IF \E i \in 2..(Len(s) - 1) :
          /\ s[i] = "/"
          /\ NoSlashNoSpace(SubSeq(s, 1, i - 1))
          /\ NoSlashNoSpace(SubSeq(s, i + 1, Len(s)))
    THEN LET i == CHOOSE k \in 2..(Len(s) - 1) : s[k] = "/"
         IN  Matched([owner |-> SubSeq(s, 1, i - 1), repo |-> SubSeq(s, i + 1, Len(s))])
    ELSE NoMatch

\* for (const pattern of patterns): the first pattern that matches decides.
FirstMatch(s) ==
    IF MatchHttps(s).matched THEN MatchHttps(s)
    ELSE IF MatchSsh(s).matched THEN MatchSsh(s)
    ELSE MatchShort(s)

parseGitHubUrl(in) ==
    LET cleanInput == StripTrailingSlashes(Trim(in))
        match == FirstMatch(cleanInput)
    IN  IF match.matched
        THEN [owner |-> Trim(match.owner), repo |-> Trim(match.repo), isValid |-> TRUE]
        ELSE [owner |-> <<>>, repo |-> <<>>, isValid |-> FALSE]


(***************************************************************************)
(* isGitHubUsername (src/src/utils.ts:45-56)                               *)
(***************************************************************************)

AlphaNum ==
    { "a","b","c","d","e","f","g","h","i","j","k","l","m","n","o","p","q",
      "r","s","t","u","v","w","x","y","z",
      "A","B","C","D","E","F","G","H","I","J","K","L","M","N","O","P","Q",
      "R","S","T","U","V","W","X","Y","Z",
      "0","1","2","3","4","5","6","7","8","9" }

\* String.prototype.includes
Includes(s, sub) ==
    \E i \in 1..(Len(s) - Len(sub) + 1) : SubSeq(s, i, i + Len(sub) - 1) = sub

\* /^[a-zA-Z0-9]([a-zA-Z0-9-])*[a-zA-Z0-9]$|^[a-zA-Z0-9]$/
UsernamePattern(s) ==
    /\ Len(s) >= 1
    /\ s[1] \in AlphaNum
    /\ s[Len(s)] \in AlphaNum
    /\ \A i \in 2..(Len(s) - 1) : s[i] \in AlphaNum \cup {"-"}

MaxUsernameLength == 39

\* A variant: only the length is checked.
isGitHubUsernameByLength(in) ==
    Len(Trim(in)) >= 1 /\ Len(Trim(in)) <= MaxUsernameLength

isGitHubUsername(in) ==
    LET cleanInput == Trim(in)
    IN  IF \/ Includes(cleanInput, <<"/">>)
           \/ Includes(cleanInput, <<"h","t","t","p">>)
           \/ Includes(cleanInput, <<"g","i","t","@">>)
        THEN FALSE
        ELSE UsernamePattern(cleanInput) /\ Len(cleanInput) <= MaxUsernameLength

(***************************************************************************)
(* Numbers of the command line                                             *)
(***************************************************************************)

DigitValue(c) ==
    CASE c = "0" -> 0 [] c = "1" -> 1 [] c = "2" -> 2 [] c = "3" -> 3
      [] c = "4" -> 4 [] c = "5" -> 5 [] c = "6" -> 6 [] c = "7" -> 7
      [] c = "8" -> 8 [] c = "9" -> 9

Digits == {"0","1","2","3","4","5","6","7","8","9"}

\* The value of the longest prefix of s made of digits, after acc.
RECURSIVE DigitsValue(_, _)
DigitsValue(s, acc) ==
    IF s # <<>> /\ Head(s) \in Digits
    THEN DigitsValue(Tail(s), 10 * acc + DigitValue(Head(s)))
    ELSE acc

\* A JavaScript number that is an integer or NaN.
NaN == [nan |-> TRUE, n |-> 0]
Num(k) == [nan |-> FALSE, n |-> k]

\* parseInt(s, 10): leading whitespace, an optional sign, then digits; NaN
\* when no digit follows.
ParseInt(s) ==
    LET t == TrimStart(s)
        signed == t # <<>> /\ Head(t) \in {"-", "+"}
        body == IF signed THEN Tail(t) ELSE t
    IN  IF body = <<>> \/ Head(body) \notin Digits THEN NaN
        ELSE IF signed /\ Head(t) = "-" THEN Num(0 - DigitsValue(body, 0))
        ELSE Num(DigitsValue(body, 0))

\* .option('-r, --repos <number>', ..., '10')
DefaultRepos == <<"1","0">>

MinRepos == 1
MaxRepos == 50

(***************************************************************************)
(* The origin (the hosting platform) and what it answers                   *)
(***************************************************************************)

\* Most repositories an account lists besides whole pages of forks.
MaxListed == 3
\* Most whole pages of forks in an account's listing.
MaxFullPages == 2

\* getUserRepositories(username, perPage = 100)
PerPage == 100

NullOwner == "null"

Repo(name, stars, updated, pushed, fork, owner) ==
    [name |-> name, stargazers_count |-> stars, updated_at |-> updated,
     pushed_at |-> pushed, fork |-> fork, owner |-> owner]

\* The repositories the origin may hold.  name, stargazers_count,
\* updated_at, pushed_at, fork and owner.login (or no owner) are the fields
\* the aggregator reads; the other fields of GitHubRepository are copied
\* into the analysis the way name is.
RepoPool ==
    { Repo(1, 2, 20, 11, FALSE, "octocat"),
      Repo(2, 2, 10, 12, FALSE, "octocat"),
      Repo(3, 2, 20, 13, FALSE, "octocat"),
      Repo(4, 1, 30, 14, FALSE, "octocat"),
      Repo(5, 3, 10, 15, FALSE, NullOwner),
      Repo(6, 3, 30, 16, TRUE, "octocat") }

ForkRepo == Repo(0, 0, 10, 10, TRUE, "octocat")

Forks(n) == [i \in 1..n |-> ForkRepo]

\* Listings up to this length come in every order.
MaxShuffled == 2

\* l lists its repositories by name, upwards or downwards.
ByName(l) ==
    \/ \A i, j \in 1..Len(l) : i < j => l[i].name < l[j].name
    \/ \A i, j \in 1..Len(l) : i < j => l[i].name > l[j].name

\* Sequences of distinct repositories of the pool, at most n long; the
\* longer ones only in the two orders by name.
Listings(n) ==
    { l \in UNION { [1..k -> RepoPool] : k \in 0..n } :
        /\ \A i, j \in 1..Len(l) : i # j => l[i] # l[j]
        /\ Len(l) > MaxShuffled => ByName(l) }

\* What an account lists, in the order the origin returns it: a few
\* repositories, or whole pages of forks (one fork less, or one repository
\* more) to make the listing span several pages.
Accounts ==
    Listings(MaxListed)
      \cup { Forks(PerPage * p - 1) \o l : p \in 1..MaxFullPages, l \in {<<>>} }
      \cup { Forks(PerPage * p) \o l : p \in 1..MaxFullPages, l \in Listings(1) }

\* Statuses of a failed request: the three the response interceptor names
\* and one other.
FailStatuses == {401, 403, 404, 500}

Ok(data) == [ok |-> TRUE, data |-> data, status |-> 200]
Fail(status) == [ok |-> FALSE, data |-> <<>>, status |-> status]

Failures == { Fail(st) : st \in FailStatuses }

EmptyMap == [l \in {} |-> 0]

\* GET /repos/{owner}/{repo}/languages: language -> bytes
LanguageData == { [A |-> 300, B |-> 100] }

\* GET /repos/{owner}/{repo}/commits?per_page=1: at most one commit, of which
\* commit.committer.date is read.
CommitData == { <<>>, <<[date |-> 40]>> }

Account == [login |-> "octocat"]

\* GET /users/{username}/repos?per_page=..&page=..
OriginPage(repos, perPage, page) ==
    SubSeq(repos, (page - 1) * perPage + 1,
           IF page * perPage < Len(repos) THEN page * perPage ELSE Len(repos))

(***************************************************************************)
(* Promises and requests                                                   *)
(***************************************************************************)

Idle == [st |-> "idle"]
Pending == [st |-> "pending"]
Fulfilled(v) == [st |-> "fulfilled", v |-> v]
Rejected(e) == [st |-> "rejected", e |-> e]

IsFulfilled(p) == p.st = "fulfilled"

\* A GET: its endpoint, and the page or the repository it is about (0: the
\* one of the command line).
Req(kind, arg) == [kind |-> kind, arg |-> arg]

\* What the response interceptor (api.ts:38-52) saw come back for a
\* request: a response or an error, the number of items of the response,
\* and the date of its first commit (0: none).
Answer(req, response, items) ==
    [req |-> req, ok |-> response.ok,
     items |-> IF response.ok THEN items ELSE 0,
     date |-> IF response.ok /\ req.kind = "commits" /\ items > 0
              THEN response.data[1].date ELSE 0]

None == [st |-> "none"]
Returned(v) == [st |-> "returned", v |-> v]
\* A failure reported to the caller: the error, and how many requests the
\* invocation had sent by then.
Threw(e, sent) == [st |-> "threw", e |-> e, sent |-> sent]

(***************************************************************************)
(* The API client's absorbing operations (src/src/api.ts:132-176)          *)
(***************************************************************************)

RECURSIVE SumBytes(_, _)
SumBytes(data, langs) ==
    IF langs = {} THEN 0
    ELSE LET l == CHOOSE x \in langs : TRUE
         IN  data[l] + SumBytes(data, langs \ {l})

\* A variant: the percentage cut after two decimals instead of rounded.
PercentageTruncated(bytes, totalBytes) ==
    IF totalBytes = 0 THEN 0 - 1
    ELSE (10000 * bytes) \div totalBytes

\* A percentage that is NaN (0 / 0), among percentages kept in hundredths.
PercentNaN == 0 - 1

\* Math.round((bytes / totalBytes) * 10000) / 100, in hundredths.
Percentage(bytes, totalBytes) ==
    IF totalBytes = 0 THEN PercentNaN
    ELSE (20000 * bytes + totalBytes) \div (2 * totalBytes)

\* getRepositoryLanguages: the percentages of a response, {} for a failure.
getRepositoryLanguages(response) ==
    IF response.ok
    THEN LET totalBytes == SumBytes(response.data, DOMAIN response.data)
         IN  [l \in DOMAIN response.data |-> Percentage(response.data[l], totalBytes)]
    ELSE EmptyMap

\* getLatestCommit: the first commit of the response, null (<<>>) when the
\* list is empty or the request failed.
getLatestCommit(response) ==
    IF response.ok
    THEN IF Len(response.data) > 0 THEN <<response.data[1]>> ELSE <<>>
    ELSE <<>>

(***************************************************************************)
(* The aggregator (src/src/api.ts:181-296)                                 *)
(***************************************************************************)

\* A variant: no fallback to the push timestamp.
LastCommitDateNoFallback(latestCommit, repo) ==
    IF latestCommit # <<>> THEN latestCommit[1].date ELSE 0

\* latestCommit?.commit.committer.date || repo.pushed_at
LastCommitDate(latestCommit, repo) ==
    IF latestCommit # <<>> /\ latestCommit[1].date # 0
    THEN latestCommit[1].date
    ELSE repo.pushed_at

\* The RepositoryAnalysis built from a repository, its languages and its
\* latest commit (api.ts:192-208 and 251-267).
Analysis(repo, langs, latestCommit) ==
    [name |-> repo.name,
     stars |-> repo.stargazers_count,
     updated_at |-> repo.updated_at,
     last_commit_date |-> LastCommitDate(latestCommit, repo),
     languages |-> langs]

\* new Date(s).getTime(): milliseconds of a timestamp kept in seconds.
GetTime(t) == t * 1000

\* A variant: a comparator without the tie-break on updated_at.
CompareStarsOnly(a, b) == b.stargazers_count - a.stargazers_count

\* The comparator of the sort: negative when a goes before b.
Compare(a, b) ==
    IF b.stargazers_count # a.stargazers_count
    THEN b.stargazers_count - a.stargazers_count
    ELSE GetTime(b.updated_at) - GetTime(a.updated_at)

\* x put into the sorted s, after every element it does not go before:
\* Array.prototype.sort is stable.
RECURSIVE Insert(_, _)
Insert(s, x) ==
    IF s = <<>> THEN <<x>>
    ELSE IF Compare(x, Head(s)) < 0 THEN <<x>> \o s
    ELSE <<Head(s)>> \o Insert(Tail(s), x)

RECURSIVE Sort(_)
Sort(s) ==
    IF s = <<>> THEN <<>>
    ELSE Insert(Sort(SubSeq(s, 1, Len(s) - 1)), s[Len(s)])

\* .filter(repo => !repo.fork)
IsSource(r) == ~r.fork

ExcludeForks(s) == SelectSeq(s, IsSource)

\* s.slice(0, end): NaN counts as 0, a negative end counts from the back.
Slice(s, end) ==
    LET k == IF end.nan THEN 0
             ELSE IF end.n < 0
                  THEN (IF Len(s) + end.n < 0 THEN 0 ELSE Len(s) + end.n)
             ELSE IF end.n > Len(s) THEN Len(s)
             ELSE end.n
    IN  SubSeq(s, 1, k)

\* api.ts:234-242
Ranked(repos) == Sort(ExcludeForks(repos))

SortedRepos(repos, max) == Slice(Ranked(repos), max)

\* A variant: a repository that cannot be resolved ends the loop.
RECURSIVE NextResolvableOrEnd(_, _)
NextResolvableOrEnd(sorted, i) ==
    IF i > Len(sorted) THEN i
    ELSE IF sorted[i].owner = NullOwner THEN Len(sorted) + 1
    ELSE i

\* The first repository from position i on whose owner.login can be read:
\* for one without owner the loop body throws at once and is skipped
\* (api.ts:248, 270-272).
RECURSIVE NextResolvable(_, _)
NextResolvable(sorted, i) ==
    IF i > Len(sorted) THEN i
    ELSE IF sorted[i].owner = NullOwner THEN NextResolvable(sorted, i + 1)
    ELSE i

(***************************************************************************)
(* State                                                                   *)
(***************************************************************************)

VARIABLES
    cmd,                \* the command: "repo", "user" or "analyze"
    input,              \* its argument
    reposOption,        \* the text of --repos
    token,              \* whether a token is configured
    originRepos,        \* what the origin lists for the account
    originLanguages,    \* the byte counts the origin gives for a repository
    pc,                 \* "start", "rate", "repo", "user", "exit", "parse"
    route,              \* the analysis the command decided on
    exitCode,           \* of the process, once pc = "exit"
    parsed,             \* the ParsedGitHubUrl of the command
    isUsername,         \* what isGitHubUsername said of the argument
    maxRepos,           \* the parsed --repos
    inflight,           \* requests sent and not yet answered
    issued,             \* every request sent, in order
    repositoryP,        \* analyzeRepository: the promise of getRepository,
    languagesP,         \*   of getRepositoryLanguages,
    latestCommitP,      \*   of getLatestCommit
    completed,          \*   and its requests in the order they were answered
    userP,              \* analyzeUser: the promise of getUser,
    repositoriesP,      \*   of getUserRepositories
    page,               \* getUserRepositories: the page to request next
    repositories,       \* getUserRepositories: the pages accumulated
    sortedRepos,        \* analyzeUser: the repositories selected
    idx,                \* analyzeUser: position of the loop in sortedRepos
    languages,          \* analyzeUser: the languages of sortedRepos[idx]
    repositoryAnalyses, \* analyzeUser: the analyses pushed so far
    outcome,            \* what analyzeRepository / analyzeUser gave its caller
    answers             \* what the origin answered to each request so far

cliVars == <<cmd, input, reposOption, token, originRepos, originLanguages>>
netVars == <<inflight, issued, answers>>
repoVars == <<repositoryP, languagesP, latestCommitP, completed>>
listVars == <<repositoriesP, page, repositories>>
loopVars == <<sortedRepos, idx, languages, repositoryAnalyses>>

vars == <<cmd, input, reposOption, token, originRepos, originLanguages, pc, route, exitCode,
          parsed, isUsername, maxRepos, inflight, issued, repositoryP, languagesP,
          latestCommitP, completed, userP, repositoriesP, page, repositories,
          sortedRepos, idx, languages, repositoryAnalyses, outcome, answers>>

Commands == {"repo", "user", "analyze"}

OwnerRepo == <<"o","/","r">>
Octocat == <<"o","c","t","o","c","a","t">>
Unclear == <<"a"," ","b">>

\* Arguments given to a command: a repository, a handle, neither.
CliInputs == {OwnerRepo, Octocat, Unclear}

\* Texts given to --repos ('10' when the option is left out).
ReposOptions ==
    { DefaultRepos, <<"1">>, <<"2">>, <<"0">>, <<"-","1">>, <<"5","1">>, <<"x">> }

\* options.repos || '10'
ReposText(option) == IF option = <<>> THEN DefaultRepos ELSE option

\* isNaN(maxRepos) || maxRepos < 1 || maxRepos > 50
InvalidRepos(max) == max.nan \/ max.n < MinRepos \/ max.n > MaxRepos

\* What each command decides from its arguments before it creates the
\* client (README.md:508-521, 583-602, 657-722).
RepoRoute(in) == IF parseGitHubUrl(in).isValid THEN "repo" ELSE "invalid"

UserRoute(in, max) ==
    IF ~isGitHubUsername(in) THEN "invalid"
    ELSE IF InvalidRepos(max) THEN "invalid"
    ELSE "user"

\* A variant: whatever is no repository is taken for a handle.
AnalyzeRouteNoCheck(in) ==
    IF parseGitHubUrl(in).isValid THEN "repo" ELSE "user"

AnalyzeRoute(in) ==
    IF parseGitHubUrl(in).isValid THEN "repo"
    ELSE IF isGitHubUsername(in) THEN "user"
    ELSE "invalid"

Route(c, in, max) ==
    CASE c = "repo" -> RepoRoute(in)
      [] c = "user" -> UserRoute(in, max)
      [] c = "analyze" -> AnalyzeRoute(in)

IdleState ==
    /\ route = "none"
    /\ exitCode = 0 - 1
    /\ parsed = [owner |-> <<>>, repo |-> <<>>, isValid |-> FALSE]
    /\ isUsername = FALSE
    /\ maxRepos = NaN
    /\ inflight = {}
    /\ issued = <<>>
    /\ repositoryP = Idle
    /\ languagesP = Idle
    /\ latestCommitP = Idle
    /\ completed = <<>>
    /\ userP = Idle
    /\ repositoriesP = Idle
    /\ page = 1
    /\ repositories = <<>>
    /\ sortedRepos = <<>>
    /\ idx = 0
    /\ languages = EmptyMap
    /\ repositoryAnalyses = <<>>
    /\ outcome = None
    /\ answers = {}

\* A command line and an origin.  The listing of the account is left empty
\* in the runs that never ask for it, and has at most one repository in the
\* runs with a token; --repos is an option of user and analyze only.
Init ==
    /\ cmd \in Commands
    /\ input \in CliInputs
    /\ token \in BOOLEAN
    /\ reposOption \in IF cmd = "repo" THEN {DefaultRepos} ELSE ReposOptions
    /\ originRepos \in
         IF Route(cmd, input, ParseInt(ReposText(reposOption))) = "user"
         THEN (IF token THEN Listings(1) ELSE Accounts)
         ELSE {<<>>}
    /\ originLanguages \in LanguageData
    /\ pc = "start"
    /\ IdleState

(***************************************************************************)
(* The command surface (index.ts, listed in README.md:469-760)             *)
(***************************************************************************)

\* process.exit(code), or the end of the action
Exit(code) == pc' = "exit" /\ exitCode' = code

\* The rejection of Promise.all is rethrown (api.ts:211-215, 292-295) and
\* reaches the caller once.  A command's catch ends the process with 1;
\* under any other caller the invocation's pending work stays scheduled.
Throw(e) ==
    /\ outcome' = IF outcome = None THEN Threw(e, Len(issued)) ELSE outcome
    /\ IF cmd = "call" THEN UNCHANGED <<pc, exitCode>> ELSE Exit(1)

\* analyzeRepository is called: its three requests leave together
\* (api.ts:186-190).
StartRepository(infl, iss) ==
    /\ pc' = "repo"
    /\ repositoryP' = Pending
    /\ languagesP' = Pending
    /\ latestCommitP' = Pending
    /\ completed' = <<>>
    /\ inflight' = infl \cup {Req("repository", 0), Req("languages", 0), Req("commits", 0)}
    /\ issued' = iss \o <<Req("repository", 0), Req("languages", 0), Req("commits", 0)>>
    /\ UNCHANGED <<exitCode, outcome, userP, listVars, loopVars>>

\* analyzeUser is called: getUser and the first page of
\* getUserRepositories leave together (api.ts:226-229).
StartUser(infl, iss) ==
    /\ pc' = "user"
    /\ userP' = Pending
    /\ repositoriesP' = Pending
    /\ page' = 1
    /\ repositories' = <<>>
    /\ inflight' = infl \cup {Req("user", 0), Req("repos", 1)}
    /\ issued' = iss \o <<Req("user", 0), Req("repos", 1)>>
    /\ UNCHANGED <<exitCode, outcome, repoVars, loopVars>>

StartAnalysis(r, infl, iss) ==
    IF r = "repo" THEN StartRepository(infl, iss) ELSE StartUser(infl, iss)

\* A command's action up to its first await: it classifies its argument,
\* exits on an invalid one, and either checks the rate limit (with a token)
\* or starts the analysis.
RunCommand ==
    /\ pc = "start"
    /\ LET max == ParseInt(ReposText(reposOption))
           r == Route(cmd, input, max)
       IN  /\ route' = r
           /\ parsed' = IF cmd = "user" THEN parsed ELSE parseGitHubUrl(input)
           /\ isUsername' = IF \/ cmd = "user"
                               \/ cmd = "analyze" /\ ~parseGitHubUrl(input).isValid
                            THEN isGitHubUsername(input) ELSE isUsername
           /\ maxRepos' = IF \/ cmd = "user" /\ isGitHubUsername(input)
                             \/ cmd = "analyze" /\ r = "user"
                          THEN max ELSE maxRepos
           /\ IF r = "invalid"
              THEN /\ Exit(1)
                   /\ UNCHANGED <<inflight, issued, outcome, repoVars, userP, listVars, loopVars>>
              ELSE IF token
              THEN /\ pc' = "rate"
                   /\ inflight' = {Req("rate_limit", 0)}
                   /\ issued' = <<Req("rate_limit", 0)>>
                   /\ UNCHANGED <<exitCode, outcome, repoVars, userP, listVars, loopVars>>
              ELSE StartAnalysis(r, inflight, issued)
    /\ UNCHANGED <<cliVars, answers>>

\* GET /rate_limit: resources.core.remaining
RateLimitData == { [remaining |-> 0], [remaining |-> 5000] }

\* A variant: a failed rate-limit request ends the command.
RateLimitResponseOrExit ==
    /\ pc = "rate"
    /\ \E response \in Failures \cup { Ok(d) : d \in RateLimitData } :
         /\ IF response.ok
            THEN StartAnalysis(route, inflight \ {Req("rate_limit", 0)}, issued)
            ELSE /\ Exit(1)
                 /\ inflight' = {}
                 /\ UNCHANGED <<issued, outcome, repoVars, userP, listVars, loopVars>>
         /\ answers' = answers \cup {Answer(Req("rate_limit", 0), response, 1)}
    /\ UNCHANGED <<cliVars, route, parsed, isUsername, maxRepos>>

\* checkRateLimit (api.ts:301-316) logs what it gets and swallows a
\* failure; the command then starts the analysis.
RateLimitResponse ==
    /\ pc = "rate"
    /\ \E response \in Failures \cup { Ok(d) : d \in RateLimitData } :
         /\ StartAnalysis(route, inflight \ {Req("rate_limit", 0)}, issued)
         /\ answers' = answers \cup {Answer(Req("rate_limit", 0), response, 1)}
    /\ UNCHANGED <<cliVars, route, parsed, isUsername, maxRepos>>

(***************************************************************************)
(* analyzeRepository (src/src/api.ts:181-216)                              *)
(***************************************************************************)

\* getRepository (api.ts:117-126) rethrows a failure.
RepositoryPromise(response) ==
    IF response.ok THEN Fulfilled(response.data) ELSE Rejected(response.status)

\* A variant: the catch of getRepositoryLanguages rethrows, as getRepository's does.
LanguagesPromiseRethrow(response) ==
    IF response.ok THEN Fulfilled(getRepositoryLanguages(response))
    ELSE Rejected(response.status)

\* getRepositoryLanguages (api.ts:135-153) returns {} for a failure.
LanguagesPromise(response) == Fulfilled(getRepositoryLanguages(response))

\* A variant: the catch of getLatestCommit rethrows, as getRepository's does.
LatestCommitPromiseRethrow(response) ==
    IF response.ok THEN Fulfilled(getLatestCommit(response))
    ELSE Rejected(response.status)

\* getLatestCommit (api.ts:160-175) returns null for a failure.
LatestCommitPromise(response) == Fulfilled(getLatestCommit(response))

FirstRejected(ps) == ps[CHOOSE i \in 1..Len(ps) : ps[i].st = "rejected"]

\* A variant: the analysis is built as soon as the repository is there,
\* with what the other two requests have given by then.
SettleRepositoryEarly(rp, lp, cp) ==
    IF \E p \in {rp, lp, cp} : p.st = "rejected"
    THEN outcome' = Threw(rp.e, Len(issued)) /\ Exit(1)
    ELSE IF IsFulfilled(rp)
    THEN /\ outcome' = Returned(Analysis(rp.v,
                                         IF IsFulfilled(lp) THEN lp.v ELSE EmptyMap,
                                         IF IsFulfilled(cp) THEN cp.v ELSE <<>>))
         /\ Exit(0)
    ELSE UNCHANGED <<outcome, pc, exitCode>>

\* Promise.all over the three promises and what follows the await: a
\* rejection is thrown to the command, which exits with 1; once all three
\* are fulfilled the analysis is built and returned, and the command ends.
SettleRepository(rp, lp, cp) ==
    IF \E p \in {rp, lp, cp} : p.st = "rejected"
    THEN Throw(FirstRejected(<<rp, lp, cp>>).e)
    ELSE IF IsFulfilled(rp) /\ IsFulfilled(lp) /\ IsFulfilled(cp)
    THEN outcome' = Returned(Analysis(rp.v, lp.v, cp.v)) /\ Exit(0)
    ELSE UNCHANGED <<outcome, pc, exitCode>>

\* The answer to GET /repos/{owner}/{repo}
RepositoryResponse ==
    /\ pc = "repo"
    /\ Req("repository", 0) \in inflight
    /\ \E response \in Failures \cup { Ok(r) : r \in RepoPool } :
         /\ repositoryP' = RepositoryPromise(response)
         /\ SettleRepository(RepositoryPromise(response), languagesP, latestCommitP)
         /\ answers' = answers \cup {Answer(Req("repository", 0), response, 1)}
    /\ inflight' = inflight \ {Req("repository", 0)}
    /\ completed' = Append(completed, "repository")
    /\ UNCHANGED <<cliVars, route, parsed, isUsername, maxRepos, issued, languagesP,
                   latestCommitP, userP, listVars, loopVars>>

\* The answer to GET /repos/{owner}/{repo}/languages within analyzeRepository
LanguagesResponse ==
    /\ pc = "repo"
    /\ Req("languages", 0) \in inflight
    /\ \E response \in Failures \cup { Ok(originLanguages) } :
         /\ languagesP' = LanguagesPromise(response)
         /\ SettleRepository(repositoryP, LanguagesPromise(response), latestCommitP)
         /\ answers' = answers \cup {Answer(Req("languages", 0), response,
                                            Cardinality(DOMAIN response.data))}
    /\ inflight' = inflight \ {Req("languages", 0)}
    /\ completed' = Append(completed, "languages")
    /\ UNCHANGED <<cliVars, route, parsed, isUsername, maxRepos, issued, repositoryP,
                   latestCommitP, userP, listVars, loopVars>>

\* The answer to GET /repos/{owner}/{repo}/commits within analyzeRepository
CommitResponse ==
    /\ pc = "repo"
    /\ Req("commits", 0) \in inflight
    /\ \E response \in Failures \cup { Ok(d) : d \in CommitData } :
         /\ latestCommitP' = LatestCommitPromise(response)
         /\ SettleRepository(repositoryP, languagesP, LatestCommitPromise(response))
         /\ answers' = answers \cup {Answer(Req("commits", 0), response,
                                            Len(response.data))}
    /\ inflight' = inflight \ {Req("commits", 0)}
    /\ completed' = Append(completed, "commits")
    /\ UNCHANGED <<cliVars, route, parsed, isUsername, maxRepos, issued, repositoryP,
                   languagesP, userP, listVars, loopVars>>

(***************************************************************************)
(* analyzeUser (src/src/api.ts:221-296)                                    *)
(***************************************************************************)

\* getUser (api.ts:61-68) rethrows a failure.
UserPromise(response) ==
    IF response.ok THEN Fulfilled(response.data) ELSE Rejected(response.status)

\* A variant: the loop goes on until a page is empty.
HasMoreUntilEmpty(data, perPage) == Len(data) > 0

\* hasMore = response.data.length === perPage
HasMore(data, perPage) == Len(data) = perPage

\* A variant: the two requests of a repository leave together.
LoopFromBothAtOnce(sorted, i, analyses, account, infl, iss) ==
    LET n == NextResolvable(sorted, i)
    IN  /\ idx' = n
        /\ repositoryAnalyses' = analyses
        /\ languages' = EmptyMap
        /\ IF n <= Len(sorted)
           THEN /\ inflight' = infl \cup {Req("languages", sorted[n].name),
                                          Req("commits", sorted[n].name)}
                /\ issued' = iss \o <<Req("languages", sorted[n].name),
                                       Req("commits", sorted[n].name)>>
                /\ UNCHANGED <<outcome, pc, exitCode>>
           ELSE /\ inflight' = infl
                /\ issued' = iss
                /\ outcome' = Returned([username |-> account.login,
                                        repositories |-> analyses])
                /\ Exit(0)

\* The for loop from position i with the analyses pushed so far: it skips
\* what cannot be resolved, sends the languages request of the next
\* repository, or, at the end of sortedRepos, returns the UserAnalysis and
\* the command ends.
LoopFrom(sorted, i, analyses, account, infl, iss) ==
    LET n == NextResolvable(sorted, i)
    IN  /\ idx' = n
        /\ repositoryAnalyses' = analyses
        /\ languages' = EmptyMap
        /\ IF n <= Len(sorted)
           THEN /\ inflight' = infl \cup {Req("languages", sorted[n].name)}
                /\ issued' = Append(iss, Req("languages", sorted[n].name))
                /\ UNCHANGED <<outcome, pc, exitCode>>
           ELSE /\ inflight' = infl
                /\ issued' = iss
                /\ outcome' = Returned([username |-> account.login,
                                        repositories |-> analyses])
                /\ Exit(0)

\* What follows await Promise.all([getUser, getUserRepositories]) once both
\* are fulfilled: filter, sort, slice, and the loop from its start.
EnterLoop(account, repos, infl, iss) ==
    /\ sortedRepos' = SortedRepos(repos, maxRepos)
    /\ LoopFrom(SortedRepos(repos, maxRepos), 1, <<>>, account, infl, iss)

\* A variant: after a first failure the account is requested once more.
FailUserRetry(status, infl) ==
    IF \A i \in 1..Len(issued) : i > 1 => issued[i] # Req("user", 0)
    THEN /\ inflight' = infl \cup {Req("user", 0)}
         /\ issued' = Append(issued, Req("user", 0))
         /\ UNCHANGED <<outcome, pc, exitCode, loopVars>>
    ELSE /\ outcome' = Threw(status, Len(issued))
         /\ Exit(1)
         /\ inflight' = infl
         /\ UNCHANGED <<issued, loopVars>>

\* A variant: a failure is swallowed and an analysis without repositories
\* is returned.
FailUserReturnEmpty(status, infl) ==
    /\ outcome' = Returned([username |-> Account.login, repositories |-> <<>>])
    /\ Exit(0)
    /\ inflight' = infl
    /\ UNCHANGED <<issued, loopVars>>

\* Promise.all rejects with the first rejection: analyzeUser throws.  Nothing
\* cancels the other promise (api.ts:226-229).
FailUser(status, infl) ==
    /\ Throw(status)
    /\ inflight' = infl
    /\ UNCHANGED <<issued, loopVars>>

\* The answer to GET /users/{username}
UserResponse ==
    /\ pc = "user"
    /\ Req("user", 0) \in inflight
    /\ \E response \in Failures \cup {Ok(Account)} :
         LET infl == inflight \ {Req("user", 0)}
             p == UserPromise(response)
         IN  /\ userP' = p
             /\ answers' = answers \cup {Answer(Req("user", 0), response, 1)}
             /\ IF p.st = "rejected" THEN FailUser(p.e, infl)
                ELSE IF IsFulfilled(repositoriesP)
                THEN EnterLoop(p.v, repositoriesP.v, infl, issued)
                ELSE /\ inflight' = infl
                     /\ UNCHANGED <<issued, loopVars, outcome, pc, exitCode>>
    /\ UNCHANGED <<cliVars, route, parsed, isUsername, maxRepos, repoVars, listVars>>

\* getUserRepositories (api.ts:74-109): the answer to the page requested.
\* A failure is rethrown; a full page makes the loop request the next one;
\* any other page ends the loop and fulfils the promise.
PageResponse ==
    /\ pc = "user"
    /\ Req("repos", page) \in inflight
    /\ \E response \in Failures \cup {Ok(OriginPage(originRepos, PerPage, page))} :
         LET infl == inflight \ {Req("repos", page)}
             all == repositories \o response.data
         IN  /\ answers' = answers \cup {Answer(Req("repos", page), response,
                                                Len(response.data))}
             /\ IF ~response.ok
                THEN /\ repositoriesP' = Rejected(response.status)
                     /\ FailUser(response.status, infl)
                     /\ UNCHANGED <<page, repositories>>
                ELSE /\ repositories' = all
                     /\ page' = page + 1
                     /\ IF HasMore(response.data, PerPage)
                        THEN /\ inflight' = infl \cup {Req("repos", page + 1)}
                             /\ issued' = Append(issued, Req("repos", page + 1))
                             /\ UNCHANGED <<repositoriesP, loopVars, outcome, pc, exitCode>>
                        ELSE /\ repositoriesP' = Fulfilled(all)
                             /\ IF IsFulfilled(userP)
                                THEN EnterLoop(userP.v, all, infl, issued)
                                ELSE /\ inflight' = infl
                                     /\ UNCHANGED <<issued, loopVars, outcome, pc, exitCode>>
    /\ UNCHANGED <<cliVars, route, parsed, isUsername, maxRepos, repoVars, userP>>

InLoop == pc = "user" /\ idx >= 1 /\ idx <= Len(sortedRepos)

\* api.ts:248-249: the languages of sortedRepos[idx] arrive and its commit
\* request leaves; were the call to throw, the catch of the loop body
\* (api.ts:270-272) would skip the repository.
RepoLanguagesResponse ==
    /\ InLoop
    /\ Req("languages", sortedRepos[idx].name) \in inflight
    /\ \E response \in Failures \cup { Ok(originLanguages) } :
         LET req == Req("languages", sortedRepos[idx].name)
             next == Req("commits", sortedRepos[idx].name)
             p == LanguagesPromise(response)
         IN  /\ answers' = answers \cup {Answer(req, response,
                                                Cardinality(DOMAIN response.data))}
             /\ IF p.st = "rejected"
                THEN LoopFrom(sortedRepos, idx + 1, repositoryAnalyses, userP.v,
                              inflight \ {req}, issued)
                ELSE /\ languages' = p.v
                     /\ inflight' = (inflight \ {req}) \cup {next}
                     /\ issued' = Append(issued, next)
                     /\ UNCHANGED <<idx, repositoryAnalyses, outcome, pc, exitCode>>
    /\ UNCHANGED <<cliVars, route, parsed, isUsername, maxRepos, repoVars, userP, listVars,
                   sortedRepos>>

\* api.ts:249-269: the latest commit of sortedRepos[idx] arrives, its
\* analysis is pushed, and the loop goes on.
RepoCommitResponse ==
    /\ InLoop
    /\ Req("commits", sortedRepos[idx].name) \in inflight
    /\ \E response \in Failures \cup { Ok(d) : d \in CommitData } :
         LET req == Req("commits", sortedRepos[idx].name)
             p == LatestCommitPromise(response)
         IN  /\ answers' = answers \cup {Answer(req, response, Len(response.data))}
             /\ LoopFrom(sortedRepos, idx + 1,
                         IF p.st = "rejected" THEN repositoryAnalyses
                         ELSE Append(repositoryAnalyses,
                                     Analysis(sortedRepos[idx], languages, p.v)),
                         userP.v, inflight \ {req}, issued)
    /\ UNCHANGED <<cliVars, route, parsed, isUsername, maxRepos, repoVars, userP, listVars,
                   sortedRepos>>

Next ==
    \/ RunCommand
    \/ RateLimitResponse
    \/ RepositoryResponse
    \/ LanguagesResponse
    \/ CommitResponse
    \/ UserResponse
    \/ PageResponse
    \/ RepoLanguagesResponse
    \/ RepoCommitResponse

Spec == Init /\ [][Next]_vars

(***************************************************************************)
(* The API client under a caller that catches its failures and goes on     *)
(* (GitHubAPI is exported, api.ts:14; analyzeUser's maxRepos defaults to   *)
(* 10, api.ts:221)                                                         *)
(***************************************************************************)

CallInit ==
    /\ cmd = "call"
    /\ input = Octocat
    /\ token = FALSE
    /\ reposOption = DefaultRepos
    /\ originRepos \in Accounts
    /\ originLanguages \in LanguageData
    /\ pc = "start"
    /\ IdleState

\* analyzeRepository(owner, repo) or analyzeUser(username, maxRepos) is
\* called.
CallAnalysis ==
    /\ pc = "start"
    /\ cmd = "call"
    /\ \E r \in {"repo", "user"} :
         /\ route' = r
         /\ maxRepos' = IF r = "user" THEN Num(10) ELSE maxRepos
         /\ StartAnalysis(r, {}, <<>>)
    /\ UNCHANGED <<cliVars, parsed, isUsername, answers>>

CallNext ==
    \/ CallAnalysis
    \/ RepositoryResponse
    \/ LanguagesResponse
    \/ CommitResponse
    \/ UserResponse
    \/ PageResponse
    \/ RepoLanguagesResponse
    \/ RepoCommitResponse

SpecCall == CallInit /\ [][CallNext]_vars


(***************************************************************************)
(* Properties of the commands and the aggregator, checked under Spec       *)
(***************************************************************************)

Failed(req) == \E a \in answers : a.req = req /\ ~a.ok
Succeeded(req) == \E a \in answers : a.req = req /\ a.ok
Answered(req) == \E a \in answers : a.req = req
AnswerTo(req) == CHOOSE a \in answers : a.req = req

\* The commit the origin gave for a request, as the analysis must show it:
\* its date, or the push timestamp when the list was empty or the request
\* failed.
DateExpected(req, repo) ==
    IF AnswerTo(req).ok /\ AnswerTo(req).items > 0
    THEN AnswerTo(req).date ELSE repo.pushed_at

ReturnedRepo == route = "repo" /\ outcome.st = "returned"
ReturnedUser == route = "user" /\ outcome.st = "returned"

\* The repository of the account's listing with a name
Listed(name) == originRepos[CHOOSE i \in 1..Len(originRepos) : originRepos[i].name = name]
Position(name) == CHOOSE i \in 1..Len(originRepos) : originRepos[i].name = name

Names(s) == [i \in 1..Len(s) |-> s[i].name]

\* C1: analyzeRepository throws exactly when the repository fetch failed,
\* and returns an analysis exactly when the repository fetch succeeded and
\* the other two requests were answered, whether they failed or not.
C1_FailsIffRepositoryFails ==
    route = "repo" =>
      /\ outcome.st = "threw" <=> Failed(Req("repository", 0))
      /\ outcome.st = "returned" <=>
           /\ Succeeded(Req("repository", 0))
           /\ Answered(Req("languages", 0))
           /\ Answered(Req("commits", 0))

C1_Witness ==
    /\ ReturnedRepo
    /\ Failed(Req("languages", 0))
    /\ Failed(Req("commits", 0))

HasOwner(r) == r.owner # NullOwner

\* C2: a failed languages request is never propagated: the promise of
\* getRepositoryLanguages is fulfilled with {}, analyzeRepository throws only
\* for a failed repository fetch, and the analysis it returns has
\* languages = {} and its other fields from the repository and commit
\* responses; in a user analysis the repository is analysed as well.
C2_LanguagesFailureAbsorbed ==
    /\ route = "repo" /\ Failed(Req("languages", 0)) =>
         /\ languagesP = Fulfilled(EmptyMap)
         /\ outcome.st = "threw" => Failed(Req("repository", 0))
         /\ outcome.st = "returned" =>
              /\ outcome.v.languages = EmptyMap
              /\ outcome.v.name = repositoryP.v.name
              /\ outcome.v.stars = repositoryP.v.stargazers_count
              /\ outcome.v.updated_at = repositoryP.v.updated_at
              /\ outcome.v.last_commit_date =
                   DateExpected(Req("commits", 0), repositoryP.v)
    /\ route = "user" =>
         \A a \in answers :
            a.req.kind = "languages" /\ ~a.ok /\ Answered(Req("commits", a.req.arg)) =>
               \E i \in 1..Len(repositoryAnalyses) :
                  /\ repositoryAnalyses[i].name = a.req.arg
                  /\ repositoryAnalyses[i].languages = EmptyMap

C2_Witness ==
    /\ ReturnedRepo
    /\ Failed(Req("languages", 0))
    /\ AnswerTo(Req("commits", 0)).items > 0

\* C3: last_commit_date of every analysis produced is not null; it is the
\* committer date of the commit the origin gave, and the repository's
\* pushed_at when the commit list was empty or the request failed; a failed
\* commit request is absorbed (null, no error).
C3_LastCommitDate ==
    /\ ReturnedRepo =>
         /\ outcome.v.last_commit_date # 0
         /\ outcome.v.last_commit_date = DateExpected(Req("commits", 0), repositoryP.v)
    /\ route = "repo" /\ Failed(Req("commits", 0)) => latestCommitP = Fulfilled(<<>>)
    /\ route = "user" =>
         /\ \A i \in 1..Len(repositoryAnalyses) :
              /\ repositoryAnalyses[i].last_commit_date # 0
              /\ repositoryAnalyses[i].last_commit_date =
                   DateExpected(Req("commits", repositoryAnalyses[i].name),
                                Listed(repositoryAnalyses[i].name))
         /\ \A a \in answers :
              a.req.kind = "commits" =>
                 \E i \in 1..Len(repositoryAnalyses) :
                    repositoryAnalyses[i].name = a.req.arg
         /\ ReturnedUser => outcome.v.repositories = repositoryAnalyses

C3_Witness ==
    /\ ReturnedUser
    /\ \E i, j, k \in 1..Len(outcome.v.repositories) :
         /\ Failed(Req("commits", outcome.v.repositories[i].name))
         /\ AnswerTo(Req("commits", outcome.v.repositories[j].name)).items > 0
         /\ Succeeded(Req("commits", outcome.v.repositories[k].name))
         /\ AnswerTo(Req("commits", outcome.v.repositories[k].name)).items = 0

RankedBefore(a, b) ==
    \/ a.stars > b.stars
    \/ a.stars = b.stars /\ a.updated_at >= b.updated_at

TiedRank(a, b) == a.stars = b.stars /\ a.updated_at = b.updated_at

NoForkInOrder(res) ==
    /\ \A i \in 1..Len(res) : ~Listed(res[i].name).fork
    /\ \A i, j \in 1..Len(res) : i < j => RankedBefore(res[i], res[j])

\* The listing in every other order (of the short listings).
Reorderings(s) ==
    IF Len(s) > MaxListed + 1 THEN {s}
    ELSE { [i \in 1..Len(s) |-> s[q[i]]] : q \in Permutations(1..Len(s)) }

\* The names analyzeUser would return for a listing, with the --repos given
ResultNames(listing) == Names(SelectSeq(SortedRepos(listing, maxRepos), HasOwner))

\* C4 as stated: the repositories returned hold no fork, are in the order
\* of descending stars and then descending updated_at, and that order is the
\* same for every order in which the listing returns the repositories.
C4_OrderIndependentOfListing ==
    ReturnedUser =>
      /\ NoForkInOrder(outcome.v.repositories)
      /\ \A l \in Reorderings(originRepos) :
            ResultNames(l) = Names(outcome.v.repositories)

\* C4 as amended: the repositories returned hold no fork and are in the
\* order of descending stars and then descending updated_at; repositories
\* equal in both are in the order of the listing.
C4_OrderUpToTies ==
    ReturnedUser =>
      /\ NoForkInOrder(outcome.v.repositories)
      /\ \A i, j \in 1..Len(outcome.v.repositories) :
            i < j /\ TiedRank(outcome.v.repositories[i], outcome.v.repositories[j]) =>
               Position(outcome.v.repositories[i].name)
                 < Position(outcome.v.repositories[j].name)

C4_Witness ==
    /\ ReturnedUser
    /\ Len(outcome.v.repositories) = 3
    /\ outcome.v.repositories[1].stars = outcome.v.repositories[2].stars
    /\ outcome.v.repositories[1].updated_at > outcome.v.repositories[2].updated_at
    /\ outcome.v.repositories[2].stars > outcome.v.repositories[3].stars
    /\ originRepos[1].name = outcome.v.repositories[3].name
    /\ originRepos[2].name = outcome.v.repositories[2].name

\* s is t with some elements left out.
RECURSIVE IsSubsequence(_, _)
IsSubsequence(s, t) ==
    IF s = <<>> THEN TRUE
    ELSE IF t = <<>> THEN FALSE
    ELSE IF Head(s) = Head(t) THEN IsSubsequence(Tail(s), Tail(t))
    ELSE IsSubsequence(s, Tail(t))

FirstOf(s, n) == SubSeq(s, 1, IF n < Len(s) THEN n ELSE Len(s))

\* C5: the repositories returned are at most maxRepos, and are, in order,
\* among the first maxRepos of the ranked non-fork repositories.
C5_FirstMaxRepos ==
    ReturnedUser /\ ~maxRepos.nan =>
      /\ Len(outcome.v.repositories) <= maxRepos.n
      /\ IsSubsequence(Names(outcome.v.repositories),
                       Names(FirstOf(Ranked(originRepos), maxRepos.n)))

\* C5 for the limits the user command lets through.
C5_FirstMaxReposInRange ==
    ReturnedUser /\ ~InvalidRepos(maxRepos) =>
      /\ Len(outcome.v.repositories) <= maxRepos.n
      /\ IsSubsequence(Names(outcome.v.repositories),
                       Names(FirstOf(Ranked(originRepos), maxRepos.n)))

\* C6: a selected repository that cannot be resolved is the only one
\* missing: the result holds every other selected repository, in order, and
\* analyzeUser does not throw once the account and the listing are there.
C6_OnlyFailedRepositoryOmitted ==
    route = "user" =>
      /\ ReturnedUser =>
           Names(outcome.v.repositories) = Names(SelectSeq(sortedRepos, HasOwner))
      /\ IsFulfilled(userP) /\ IsFulfilled(repositoriesP) => outcome.st # "threw"

C6_Witness ==
    /\ ReturnedUser
    /\ Len(sortedRepos) >= 3
    /\ ~HasOwner(sortedRepos[1])
    /\ Len(outcome.v.repositories) = Len(sortedRepos) - 1

\* The commands that lead to a user analysis, given a limit that is not a
\* number from 1 to 50.
LimitRejected ==
    /\ cmd \in {"user", "analyze"}
    /\ isGitHubUsername(input)
    /\ InvalidRepos(ParseInt(ReposText(reposOption)))

\* C7: with such a limit the command exits non-zero before any request,
\* and analyzeUser is only called with 1 <= maxRepos <= 50.
C7_LimitCheckedBeforeNetwork ==
    /\ LimitRejected /\ pc # "start" => pc = "exit" /\ exitCode = 1 /\ issued = <<>>
    /\ pc = "user" => ~InvalidRepos(maxRepos)

IsPageRequest(r) == r.kind = "repos"

PagesRequested == SelectSeq(issued, IsPageRequest)

\* C8: the pages are requested in the order 1, 2, 3, ...; a page of 100
\* items is followed by the request of the next, a shorter one by none;
\* when all succeeded the result is the account's listing in order, after
\* floor(n / 100) + 1 requests.
C8_Pagination ==
    route = "user" =>
      /\ \A i \in 1..Len(PagesRequested) : PagesRequested[i].arg = i
      /\ \A a \in answers :
            a.req.kind = "repos" /\ a.ok =>
               IF a.items = PerPage THEN Len(PagesRequested) > a.req.arg
               ELSE a.items < PerPage /\ Len(PagesRequested) = a.req.arg
      /\ IsFulfilled(repositoriesP) =>
            /\ repositoriesP.v = originRepos
            /\ Len(PagesRequested) = (Len(originRepos) \div PerPage) + 1

C8_Witness ==
    /\ IsFulfilled(repositoriesP)
    /\ Len(originRepos) = 2 * PerPage
    /\ Len(PagesRequested) = 3
    /\ AnswerTo(Req("repos", 3)).ok
    /\ AnswerTo(Req("repos", 3)).items = 0

RejectedBeforeNetwork == pc = "exit" /\ exitCode = 1 /\ issued = <<>> /\ outcome = None

RepositoryRequests == {"repository", "languages", "commits"}

\* The requests of the analysis, the rate-limit check apart
IsAnalysisRequest(r) == r.kind # "rate_limit"

AnalysisRequests == SelectSeq(issued, IsAnalysisRequest)

\* C14: once a command has looked at its argument, analyze runs a
\* repository analysis when parseGitHubUrl accepts it, else a user analysis
\* when isGitHubUsername accepts it, else exits non-zero; repo exits non-zero
\* on an argument the parser rejects and user on one the handle check
\* rejects; in the rejecting cases no request was issued.
C14_ClassifiedBeforeNetwork ==
    pc # "start" =>
      /\ cmd = "analyze" =>
           IF parseGitHubUrl(input).isValid
           THEN /\ route = "repo"
                /\ \A i \in 1..Len(AnalysisRequests) :
                      AnalysisRequests[i].kind \in RepositoryRequests
           ELSE IF isGitHubUsername(input)
           THEN /\ route = "user"
                /\ \A i \in 1..Len(AnalysisRequests) :
                      AnalysisRequests[i].kind \notin {"repository"}
                /\ AnalysisRequests # <<>> => AnalysisRequests[1].kind = "user"
           ELSE route = "invalid" /\ RejectedBeforeNetwork
      /\ cmd = "repo" /\ ~parseGitHubUrl(input).isValid => RejectedBeforeNetwork
      /\ cmd = "user" /\ ~isGitHubUsername(input) => RejectedBeforeNetwork
      /\ route = "invalid" => RejectedBeforeNetwork

C14_Witness ==
    /\ cmd = "analyze"
    /\ token
    /\ input = Unclear
    /\ RejectedBeforeNetwork

\* The languages the analysis of a repository must show, from the answer
\* to its languages request
LanguagesExpected(req) ==
    IF Succeeded(req) THEN getRepositoryLanguages(Ok(originLanguages)) ELSE EmptyMap

\* The analysis of a repository as a function of what the origin answered
AnalysisExpected(repo, key) ==
    [name |-> repo.name,
     stars |-> repo.stargazers_count,
     updated_at |-> repo.updated_at,
     last_commit_date |-> DateExpected(Req("commits", key), repo),
     languages |-> LanguagesExpected(Req("languages", key))]

SelectedResolvable == SelectSeq(SortedRepos(originRepos, maxRepos), HasOwner)

UserAnalysisExpected ==
    [username |-> Account.login,
     repositories |-> [i \in 1..Len(SelectedResolvable) |->
                         AnalysisExpected(SelectedResolvable[i],
                                          SelectedResolvable[i].name)]]

ListingFailed == \E a \in answers : a.req.kind = "repos" /\ ~a.ok

\* The outcome and the exit code of a command that ran an analysis, as a
\* function of the answers to the requests of the analysis.
OutcomeFromAnalysisAnswers ==
    /\ route = "repo" =>
         /\ outcome.st = "threw" <=> Failed(Req("repository", 0))
         /\ outcome.st = "returned" =>
              outcome.v = AnalysisExpected(repositoryP.v, 0)
    /\ route = "user" =>
         /\ outcome.st = "threw" <=> (Failed(Req("user", 0)) \/ ListingFailed)
         /\ outcome.st = "returned" => outcome.v = UserAnalysisExpected
    /\ outcome.st \in {"threw", "returned"}
    /\ exitCode = IF outcome.st = "returned" THEN 0 ELSE 1

\* C17: the rate-limit check never ends a command: whatever the answer to
\* its request, the analysis is started after it, and the outcome and the
\* exit code are those the answers to the analysis's requests give.
C17_RateLimitObservational ==
    /\ pc = "rate" => token /\ issued = <<Req("rate_limit", 0)>> /\ outcome = None
    /\ Answered(Req("rate_limit", 0)) =>
         /\ route \in {"repo", "user"}
         /\ pc \in {route, "exit"}
         /\ issued[1] = Req("rate_limit", 0)
         /\ Len(AnalysisRequests) >= 2
         /\ AnalysisRequests[1].kind = IF route = "repo" THEN "repository" ELSE "user"
    /\ pc = "exit" /\ route \in {"repo", "user"} => OutcomeFromAnalysisAnswers

C17_Witness ==
    /\ token
    /\ Failed(Req("rate_limit", 0))
    /\ pc = "exit"
    /\ outcome.st = "returned"
    /\ exitCode = 0

\* C18: the analysis analyzeRepository returns is built once all three
\* requests are answered, and is one function of the three responses, in
\* whatever order they came: two calls given the same responses return
\* equal records.
C18_FunctionOfResponses ==
    route = "repo" =>
      /\ Len(completed) < 3 => outcome.st # "returned"
      /\ outcome.st = "returned" =>
           /\ inflight = {}
           /\ Answered(Req("repository", 0))
           /\ Answered(Req("languages", 0))
           /\ Answered(Req("commits", 0))
           /\ outcome.v = AnalysisExpected(repositoryP.v, 0)

\* Answered in the reverse of the order of the requests
C18_Witness ==
    /\ ReturnedRepo
    /\ completed = <<"commits", "languages", "repository">>
    /\ Succeeded(Req("languages", 0))
    /\ AnswerTo(Req("commits", 0)).items > 0

\* C19: no request is issued twice, whatever failed: each request of a
\* command is in the log once and has one answer at most, and a failed
\* getUser or getRepository is thrown to the caller after its one GET.
C19_NoRetry ==
    /\ Cardinality({issued[i] : i \in 1..Len(issued)}) = Len(issued)
    /\ Cardinality({a.req : a \in answers}) = Cardinality(answers)
    /\ \A a \in answers : a.req \notin inflight
    /\ Failed(Req("user", 0)) => outcome.st = "threw" /\ pc = "exit"
    /\ Failed(Req("repository", 0)) => outcome.st = "threw" /\ pc = "exit"

\* The account failed after the first page of the listing was answered
C19_Witness ==
    /\ route = "user"
    /\ Failed(Req("user", 0))
    /\ Succeeded(Req("repos", 1))
    /\ Len(PagesRequested) = 2
    /\ outcome.st = "threw"

IsSatellite(r) == r.kind \in {"languages", "commits"}

SatelliteRequests == SelectSeq(issued, IsSatellite)

IsLanguagesRequest(r) == r.kind = "languages"

\* The repositories whose languages were asked for, in the order asked
RepositoriesAsked ==
    [i \in 1..Len(SelectSeq(issued, IsLanguagesRequest)) |->
       SelectSeq(issued, IsLanguagesRequest)[i].arg]

\* C20: in analyzeUser one page of the listing is in flight at a time and
\* page k+1 is requested after page k was answered; no request for a
\* repository is issued before the account and the whole listing are
\* there; and the requests for the repositories go in ranking order,
\* languages then commits, each answered before the next is issued.
C20_Sequential ==
    route = "user" =>
      LET pages == PagesRequested
          sat == SatelliteRequests
          asked == RepositoriesAsked
          selected == SelectSeq(sortedRepos, HasOwner)
      IN  /\ Cardinality({r \in inflight : r.kind = "repos"}) <= 1
          /\ \A i \in 2..Len(pages) :
                /\ Succeeded(Req("repos", i - 1))
                /\ AnswerTo(Req("repos", i - 1)).items = PerPage
          /\ sat # <<>> =>
                /\ Succeeded(Req("user", 0))
                /\ IsFulfilled(userP) /\ IsFulfilled(repositoriesP)
                /\ \A r \in inflight : IsSatellite(r)
                /\ \A i \in 1..Len(pages) : Succeeded(pages[i])
          /\ \A i \in 1..(Len(issued) - 1) :
                IsSatellite(issued[i]) => IsSatellite(issued[i + 1])
          /\ Cardinality({r \in inflight : IsSatellite(r)}) <= 1
          /\ \A i \in 1..Len(sat) :
                /\ i < Len(sat) => Answered(sat[i])
                /\ i % 2 = 1 => sat[i].kind = "languages"
                /\ i % 2 = 0 => sat[i] = Req("commits", sat[i - 1].arg)
          /\ Len(asked) <= Len(selected)
          /\ asked = SubSeq(Names(selected), 1, Len(asked))

C20_Witness ==
    /\ ReturnedUser
    /\ Len(outcome.v.repositories) = 3
    /\ Len(SatelliteRequests) = 6
    /\ originRepos[1].name # outcome.v.repositories[1].name

\* C21: analyzeUser throws exactly when the account request or a page
\* request of the listing failed; then nothing is returned, the pages
\* before the failed one are not given out as a listing, and no request for
\* a repository was issued.  Otherwise the command ends with a UserAnalysis.
C21_FailsIffAccountOrPageFails ==
    route = "user" =>
      /\ outcome.st = "threw" <=> (Failed(Req("user", 0)) \/ ListingFailed)
      /\ outcome.st = "threw" =>
           /\ SatelliteRequests = <<>>
           /\ sortedRepos = <<>>
           /\ repositoryAnalyses = <<>>
      /\ ListingFailed => repositoriesP.st = "rejected"
      /\ IsFulfilled(repositoriesP) => repositoriesP.v = originRepos
      /\ pc = "exit" /\ outcome.st # "threw" =>
           /\ outcome.st = "returned"
           /\ Succeeded(Req("user", 0))
           /\ \A i \in 1..Len(PagesRequested) : Succeeded(PagesRequested[i])

\* Page 2 failed after page 1 and the account had succeeded
C21_Witness ==
    /\ route = "user"
    /\ Succeeded(Req("user", 0))
    /\ Succeeded(Req("repos", 1))
    /\ Failed(Req("repos", 2))
    /\ Len(repositories) = PerPage
    /\ outcome.st = "threw"

AllOwnersKnown == \A i \in 1..Len(originRepos) : HasOwner(originRepos[i])

Min(a, b) == IF a < b THEN a ELSE b

\* C22: when the account and the listing succeeded and every repository
\* listed has an owner, analyzeUser returns min(maxRepos, number of
\* non-fork repositories) entries, whatever languages and commits requests
\* failed.
C22_CountWithOwners ==
    ReturnedUser /\ AllOwnersKnown /\ ~maxRepos.nan =>
      Len(outcome.v.repositories) = Min(maxRepos.n, Len(ExcludeForks(originRepos)))

\* C22 for the limits the user command lets through
C22_CountWithOwnersInRange ==
    ReturnedUser /\ AllOwnersKnown /\ ~InvalidRepos(maxRepos) =>
      /\ Len(outcome.v.repositories) = Min(maxRepos.n, Len(ExcludeForks(originRepos)))
      /\ \A i \in 1..Len(outcome.v.repositories) :
            /\ Failed(Req("languages", outcome.v.repositories[i].name)) =>
                 outcome.v.repositories[i].languages = EmptyMap
            /\ Failed(Req("commits", outcome.v.repositories[i].name)) =>
                 outcome.v.repositories[i].last_commit_date =
                   Listed(outcome.v.repositories[i].name).pushed_at

(***************************************************************************)
(* Properties of the API client under a caller that goes on: SpecCall      *)
(***************************************************************************)

\* The requests an invocation sent after it reported its failure
SentAfterFailure == SubSeq(issued, outcome.sent + 1, Len(issued))

\* C24, as claimed: once analyzeRepository or analyzeUser has reported its
\* failure to the caller, the invocation starts no further request.
C24_NothingAfterFailure ==
    outcome.st = "threw" => SentAfterFailure = <<>>

\* C24, as the code has it: a failed analyzeRepository starts no further
\* request, and a failed analyzeUser starts no account, repository, languages
\* or commits request; but the listing that was running when the account
\* fetch failed goes on: each of its full pages is still followed by the
\* request of the next page, until a short page or a failed one ends it.
C24_OnlyListingGoesOn ==
    outcome.st = "threw" =>
      /\ route = "repo" => SentAfterFailure = <<>>
      /\ route = "user" =>
           /\ SatelliteRequests = <<>>
           /\ sortedRepos = <<>> /\ repositoryAnalyses = <<>>
           /\ SentAfterFailure # <<>> => Failed(Req("user", 0))
           /\ \A i \in 1..Len(SentAfterFailure) :
                 LET r == SentAfterFailure[i]
                 IN  /\ r.kind = "repos"
                     /\ r.arg >= 2
                     /\ Succeeded(Req("repos", r.arg - 1))
                     /\ AnswerTo(Req("repos", r.arg - 1)).items = PerPage
           /\ Len(PagesRequested) <= (Len(originRepos) \div PerPage) + 1

\* The account fetch has failed, analyzeUser has thrown, and the listing
\* has requested a page since.
C24_Witness ==
    /\ cmd = "call"
    /\ route = "user"
    /\ outcome.st = "threw"
    /\ Failed(Req("user", 0))
    /\ SentAfterFailure # <<>>

(***************************************************************************)
(* The identifier parser on its own: parseGitHubUrl applied to an input    *)
(***************************************************************************)

\* Most pieces an input is made of, after its prefix.
MaxPieces == 5

\* What an input starts with.
InputPrefixes == { <<>>, HttpsPrefix, HttpPrefix, SshPrefix }

\* The pieces that follow.
InputPieces == { <<"o">>, <<"r">>, <<"/">>, DotGit, <<" ">> }

RECURSIVE Concat(_)
Concat(ss) == IF ss = <<>> THEN <<>> ELSE Head(ss) \o Concat(Tail(ss))

\* Texts a handle is checked on: short ones of a letter, hyphens and the
\* markers of a URL, and ones about as long as a handle may be.
HandlePieces == { <<"o">>, <<"-">>, <<"h","t","t","p">>, <<"g","i","t","@">> }

Block(n) == [i \in 1..n |-> "a"]

HandleEnds == { <<>>, <<"a">>, <<"-">>, <<"a","a">> }

HandleInputs ==
    { lead \o Concat(pieces) \o lead :
        lead \in {<<>>, <<" ">>},
        pieces \in UNION { [1..k -> HandlePieces] : k \in 0..MaxPieces } }
    \cup { x \o Block(MaxUsernameLength - 2) \o y : x \in HandleEnds, y \in HandleEnds }
    \cup { Octocat }

ParserInputs ==
    { lead \o prefix \o Concat(pieces) :
        lead \in {<<>>, <<" ">>},
        prefix \in InputPrefixes,
        pieces \in UNION { [1..k -> InputPieces] : k \in 0..MaxPieces } }

ParseInit ==
    /\ cmd = "analyze"
    /\ input \in ParserInputs \cup HandleInputs
    /\ token = FALSE
    /\ reposOption = DefaultRepos
    /\ originRepos = <<>>
    /\ originLanguages \in LanguageData
    /\ pc = "parse"
    /\ IdleState

ParseUrl ==
    /\ pc = "parse"
    /\ parsed' = parseGitHubUrl(input)
    /\ pc' = "parsed"
    /\ UNCHANGED <<cliVars, route, exitCode, isUsername, maxRepos, netVars,
                   repoVars, userP, listVars, loopVars, outcome>>

\* isGitHubUsername applied to the same input, as the analyze command does
\* after the parser (README.md:658, 688)
CheckUsername ==
    /\ pc = "parsed"
    /\ isUsername' = isGitHubUsername(input)
    /\ pc' = "checked"
    /\ UNCHANGED <<cliVars, route, exitCode, parsed, maxRepos, netVars,
                   repoVars, userP, listVars, loopVars, outcome>>

ParseNext == ParseUrl \/ CheckUsername

SpecParse == ParseInit /\ [][ParseNext]_vars


(***************************************************************************)
(* Properties of parseGitHubUrl, checked under SpecParse                   *)
(***************************************************************************)

\* The input apart from surrounding whitespace and trailing slashes
Cleaned(in) == StripTrailingSlashes(Trim(in))

EndsWith(s, e) == Len(s) >= Len(e) /\ SubSeq(s, Len(s) - Len(e) + 1, Len(s)) = e

\* A name: not empty, without "/" and without whitespace
IsName(s) == s # <<>> /\ NoSlashNoSpace(s)

\* The ways to read t as <owner>/<repo> (one at most)
OwnerSlashRepo(t) ==
    { [owner |-> SubSeq(t, 1, i - 1), repo |-> SubSeq(t, i + 1, Len(t))] :
        i \in { k \in 1..Len(t) : /\ t[k] = "/"
                                  /\ IsName(SubSeq(t, 1, k - 1))
                                  /\ IsName(SubSeq(t, k + 1, Len(t))) } }

\* What C9 expects of an input of one of its three forms
ExpectedOfForms(c) ==
    IF StartsWith(c, HttpsPrefix) THEN OwnerSlashRepo(DropPrefix(c, HttpsPrefix))
    ELSE IF StartsWith(c, SshPrefix)
    THEN (IF EndsWith(c, DotGit)
          THEN OwnerSlashRepo(SubSeq(c, Len(SshPrefix) + 1, Len(c) - Len(DotGit)))
          ELSE {})
    ELSE OwnerSlashRepo(c)

Valid(e) == [owner |-> e.owner, repo |-> e.repo, isValid |-> TRUE]

\* C9: an input of the form https://github.com/<owner>/<repo>,
\* git@github.com:<owner>/<repo>.git or <owner>/<repo>, apart from
\* surrounding whitespace and trailing slashes, parses as valid with that
\* owner and that repo.
C9_FormsParsed ==
    pc = "parsed" =>
      \A e \in ExpectedOfForms(Cleaned(input)) : parsed = Valid(e)

\* C9 without the SSH form
C9_HttpsAndShortParsed ==
    pc = "parsed" /\ ~StartsWith(Cleaned(input), SshPrefix) =>
      \A e \in ExpectedOfForms(Cleaned(input)) : parsed = Valid(e)

\* The text up to the first "/" of t (all of t without one)
FirstSegment(t) ==
    IF \E k \in 1..Len(t) : t[k] = "/"
    THEN SubSeq(t, 1, (CHOOSE k \in 1..Len(t) :
                         t[k] = "/" /\ \A j \in 1..(k - 1) : t[j] # "/") - 1)
    ELSE t

WithoutDotGit(seg) ==
    IF Len(seg) > Len(DotGit) /\ EndsWith(seg, DotGit)
    THEN SubSeq(seg, 1, Len(seg) - Len(DotGit)) ELSE seg

\* What C10 expects of https://github.com/<owner>/<repo>[.git][/<path>]
ExpectedOfHttps(rest) ==
    LET first == FirstSegment(rest)
        second == FirstSegment(SubSeq(rest, Len(first) + 2, Len(rest)))
    IN  IF IsName(first) /\ IsName(second)
        THEN {[owner |-> first, repo |-> WithoutDotGit(second)]}
        ELSE {}

\* C10: an https URL, with or without .git and a trailing path, parses as
\* valid with its first two path segments as owner and repo, .git and the
\* path left out of repo.
C10_HttpsSegments ==
    pc = "parsed" /\ StartsWith(Cleaned(input), HttpsPrefix) =>
      \A e \in ExpectedOfHttps(DropPrefix(Cleaned(input), HttpsPrefix)) :
         parsed = Valid(e)

\* C10 with .git kept in repo
C10_HttpsSegmentsWithDotGit ==
    pc = "parsed" /\ StartsWith(Cleaned(input), HttpsPrefix) =>
      \A e \in ExpectedOfHttps(DropPrefix(Cleaned(input), HttpsPrefix)) :
         /\ parsed.isValid
         /\ parsed.owner = e.owner
         /\ WithoutDotGit(parsed.repo) = e.repo

\* The number of "/" in s
RECURSIVE CountSlashes(_)
CountSlashes(s) ==
    IF s = <<>> THEN 0
    ELSE (IF Head(s) = "/" THEN 1 ELSE 0) + CountSlashes(Tail(s))

\* t is <owner>/<repo>, or <owner>/<repo>/<anything> where a path may
\* follow, owner and repo not empty and without "/"
OwnerRepoThenPath(t, pathAllowed) ==
    LET first == FirstSegment(t)
        after == SubSeq(t, Len(first) + 2, Len(t))
        second == FirstSegment(after)
    IN  /\ first # <<>>
        /\ Len(first) < Len(t)
        /\ second # <<>>
        /\ pathAllowed \/ second = after

\* The https-URL form (http as well) and the SSH form
InHttpsForm(c) ==
    \/ StartsWith(c, HttpsPrefix) /\ OwnerRepoThenPath(DropPrefix(c, HttpsPrefix), TRUE)
    \/ StartsWith(c, HttpPrefix) /\ OwnerRepoThenPath(DropPrefix(c, HttpPrefix), TRUE)

InSshForm(c) ==
    StartsWith(c, SshPrefix) /\ OwnerRepoThenPath(DropPrefix(c, SshPrefix), FALSE)

\* The form <owner>/<repo>
InShortForm(c) == OwnerSlashRepo(c) # {}

\* Whitespace between two characters that are not whitespace
InternalWhitespace(s) ==
    \E i, j, k \in 1..Len(s) :
       /\ i < j /\ j < k
       /\ s[i] \notin Whitespace /\ s[j] \in Whitespace /\ s[k] \notin Whitespace

\* C11: an input with two or more slashes (trailing ones apart) that is
\* in neither the https-URL nor the SSH form is invalid, and so is every
\* input with internal whitespace.
C11_SlashesAndWhitespaceRejected ==
    pc = "parsed" =>
      /\ /\ CountSlashes(Cleaned(input)) >= 2
         /\ ~InHttpsForm(Cleaned(input))
         /\ ~InSshForm(Cleaned(input))
         => ~parsed.isValid
      /\ InternalWhitespace(input) => ~parsed.isValid

\* C11 for the slashes alone, and for whitespace in the short form
C11_SlashesRejected ==
    pc = "parsed" =>
      /\ /\ CountSlashes(Cleaned(input)) >= 2
         /\ ~InHttpsForm(Cleaned(input))
         /\ ~InSshForm(Cleaned(input))
         => ~parsed.isValid
      /\ /\ InternalWhitespace(input)
         /\ ~InHttpsForm(Cleaned(input))
         /\ ~InSshForm(Cleaned(input))
         => ~parsed.isValid

Invalid == [owner |-> <<>>, repo |-> <<>>, isValid |-> FALSE]

\* C12: parseGitHubUrl gives a result for every input: valid exactly for
\* the inputs in one of the three forms, and for every other input
\* isValid = false with owner and repo empty.
C12_TotalNoMatchInvalid ==
    pc = "parsed" =>
      /\ parsed.isValid \in BOOLEAN
      /\ parsed.isValid <=>
           \/ InHttpsForm(Cleaned(input))
           \/ InSshForm(Cleaned(input))
           \/ InShortForm(Cleaned(input))
      /\ ~parsed.isValid => parsed = Invalid

C12_Witness ==
    /\ pc = "parsed"
    /\ parsed = Invalid
    /\ CountSlashes(Cleaned(input)) = 1
    /\ InternalWhitespace(input)
    /\ ~StartsWith(Cleaned(input), SshPrefix)

(***************************************************************************)
(* Properties of isGitHubUsername, checked under SpecParse                 *)
(***************************************************************************)

Letters == AlphaNum \ Digits

OnlyLettersDigitsHyphens(s) ==
    \A i \in 1..Len(s) : s[i] \in Letters \cup Digits \cup {"-"}

NoHyphenAtEnds(s) == s # <<>> => s[1] # "-" /\ s[Len(s)] # "-"

NoHyphenRun(s) == \A i \in 1..(Len(s) - 1) : ~(s[i] = "-" /\ s[i + 1] = "-")

NoUrlMarker(s) ==
    /\ \A i \in 1..Len(s) : s[i] # "/"
    /\ ~Includes(s, <<"h","t","t","p">>)
    /\ ~Includes(s, <<"g","i","t","@">>)

\* C13: isGitHubUsername is true only of an input that, trimmed, has none
\* of "/", "http", "git@", is 1 to 39 characters long, all of them letters,
\* digits and hyphens, with no hyphen first or last and no two hyphens in a
\* row; octocat is accepted.
C13_UsernameShape ==
    pc = "checked" =>
      /\ isUsername =>
           /\ NoUrlMarker(Trim(input))
           /\ Len(Trim(input)) >= 1
           /\ Len(Trim(input)) <= MaxUsernameLength
           /\ OnlyLettersDigitsHyphens(Trim(input))
           /\ NoHyphenAtEnds(Trim(input))
           /\ NoHyphenRun(Trim(input))
      /\ input = Octocat => isUsername

\* C13 without the consecutive hyphens: these are the inputs accepted
C13_UsernameShapeWithHyphenRuns ==
    pc = "checked" =>
      isUsername <=>
           /\ NoUrlMarker(Trim(input))
           /\ Len(Trim(input)) >= 1
           /\ Len(Trim(input)) <= MaxUsernameLength
           /\ OnlyLettersDigitsHyphens(Trim(input))
           /\ NoHyphenAtEnds(Trim(input))

\* analyze with its two checks tried in the other order
AnalyzeRouteHandleFirst ==
    IF isUsername THEN "user"
    ELSE IF parsed.isValid THEN "repo"
    ELSE "invalid"

\* C23: no input is both a valid repository for parseGitHubUrl and a
\* handle for isGitHubUsername, so analyze decides the same with the
\* checks in either order.
C23_ParserAndHandleExclusive ==
    pc = "checked" =>
      /\ ~(parsed.isValid /\ isUsername)
      /\ AnalyzeRoute(input) = AnalyzeRouteHandleFirst

C23_Witness ==
    /\ pc = "checked"
    /\ input = Octocat
    /\ isUsername
    /\ ~parsed.isValid

(***************************************************************************)
(* getRepositoryLanguages on its own: the conversion applied to the byte   *)
(* counts of a languages response                                          *)
(***************************************************************************)

\* Most bytes of a language in a response.
MaxBytes == 5

LanguageNames == {"A", "B", "C"}

\* The byte counts of a response: some languages, each with a count.
LanguageInputs ==
    LanguageData \cup UNION { [d -> 0..MaxBytes] : d \in SUBSET LanguageNames }

LanguagesInit ==
    /\ cmd = "repo"
    /\ input = OwnerRepo
    /\ token = FALSE
    /\ reposOption = DefaultRepos
    /\ originRepos = <<>>
    /\ originLanguages \in LanguageInputs
    /\ pc = "languages"
    /\ IdleState

\* getRepositoryLanguages called and answered (api.ts:132-154)
ConvertLanguages ==
    /\ pc = "languages"
    /\ \E response \in Failures \cup { Ok(originLanguages) } :
         /\ languagesP' = LanguagesPromise(response)
         /\ answers' = answers \cup {Answer(Req("languages", 0), response,
                                            Cardinality(DOMAIN response.data))}
    /\ issued' = issued \o <<Req("languages", 0)>>
    /\ pc' = "converted"
    /\ UNCHANGED <<cliVars, route, exitCode, parsed, isUsername, maxRepos, inflight,
                   repositoryP, latestCommitP, completed, userP, listVars,
                   loopVars, outcome>>

LanguagesNext == ConvertLanguages

SpecLanguages == LanguagesInit /\ [][LanguagesNext]_vars

(***************************************************************************)
(* Properties of getRepositoryLanguages, checked under SpecLanguages       *)
(***************************************************************************)

Converted == pc = "converted" /\ Succeeded(Req("languages", 0))

TotalBytes == SumBytes(originLanguages, DOMAIN originLanguages)

\* v hundredths of a percent is c of total to the nearest hundredth
NearestHundredth(v, c, total) ==
    /\ 2 * (total * v - 10000 * c) <= total
    /\ 2 * (10000 * c - total * v) <= total

RECURSIVE SumValues(_, _)
SumValues(f, keys) ==
    IF keys = {} THEN 0
    ELSE LET k == CHOOSE x \in keys : TRUE
         IN  f[k] + SumValues(f, keys \ {k})

C16_PercentagesInRange ==
    Converted =>
      /\ IsFulfilled(languagesP)
      /\ \A l \in DOMAIN languagesP.v :
            languagesP.v[l] >= 0 /\ languagesP.v[l] <= 10000

\* C16 for the responses with a total above 0, and for the empty one
C16_PercentagesInRangeOfPositiveTotal ==
    Converted /\ (TotalBytes > 0 \/ DOMAIN originLanguages = {}) =>
      /\ IsFulfilled(languagesP)
      /\ \A l \in DOMAIN languagesP.v :
            languagesP.v[l] >= 0 /\ languagesP.v[l] <= 10000

=============================================================================
